---- MODULE Spec2Model ----
(***************************************************************************)
(* The train / validate loops of trojanzoo/utils/train.py as a state       *)
(* machine.  One train call is followed through its positions (call,       *)
(* resume walk, epoch begin, batches, epoch end, periodic validation,      *)
(* return); one validate call through its batches.  Hooks, the optimizer,  *)
(* the scaler and the data sources are external collaborators: what the    *)
(* model keeps of them is when they are invoked, with what, and whether    *)
(* the invocation raised.                                                  *)
(***************************************************************************)
EXTENDS Integers, Sequences, FiniteSets, TLC

\* ---------------------------------------------------------------- bounds
MaxEpochs == 3
MaxLen == 2
MaxInterval == 2
MaxAcc == 3
MaxStride == 3
EmaMaxLen == 7
BestEpochs == 4
MaxValLen == 3
ValidateRepeats == 2

\* ------------------------------------------------------ program constants
DefaultEmaSteps == 32
DefaultValidateInterval == 10

VARIABLES
    args,        \* the parameters train was called with
    valid_accs,  \* accuracy the validate function returns on its k-th call
    pc,          \* position of the call
    error,       \* exception that ended the call, "none" while there is none
    amp,         \* train's local amp after line 58
    scaler,      \* train's local scaler: "None" or "GradScaler"
    best_acc,    \* train's local best_acc, -1 while unbound
    epoch,       \* train's local _epoch (1-based once the loop runs)
    i,           \* index of the next batch of the epoch
    training,    \* module.training
    requires_grad, \* parameters with gradient tracking: "caller", "none", "params"
    n_averaged,  \* model_ema.n_averaged
    calls,       \* invocations of every collaborator so far
    trace,       \* collaborator invocations of the latest batch, in order
    hook_amp,    \* the amp keyword the latest batch handed to its hooks
    events,      \* epoch-level invocations so far: <<name, epoch>>
    save_log,    \* post-epoch checkpoints (1, 2, ...) at which save_fn ran
    faulty,      \* the collaborators that may raise when invoked
    raised_by,   \* the invocation that raised, "" while none has
    weights,     \* version of the module's parameters: each step makes a new one
    loader,      \* the data source of the call: one record per batch
    meters,      \* logger.meters of the running call
    results,     \* what the validate / compare calls so far returned
    grads,       \* the parameters' gradients: "caller", "zero", "plain",
                 \* "scaled" or "unscaled"
    observed,    \* what hooks and the clipping saw when they were invoked
    records,     \* what train wrote to the writer: <<main_tag, step, value>>
    training2,   \* module2.training (compare)
    given_mode,  \* module.training when the call was made
    passed,      \* the keywords of each validate_fn invocation, in order
    params,      \* train's local params (lines 67-69)
    opt_params   \* the parameters in optimizer.param_groups

\* what a call is given and never assigns
env == <<args, valid_accs, faulty, loader, given_mode>>

\* train's locals and the state of the optimizer, scaler and EMA it drives
locals == <<amp, scaler, best_acc, epoch, n_averaged, hook_amp, events,
            save_log, requires_grad>>

\* what the collaborators were shown
seen == <<observed, records, passed>>

\* the optimizer's parameters and train's list of them
groups == <<params, opt_params>>

vars == <<env, locals, pc, error, raised_by, i, training, weights, calls,
          trace, meters, results, grads, seen, training2, groups>>

\* ------------------------------------------------------------ helpers
Max(a, b) == IF a >= b THEN a ELSE b

RECURSIVE CountOf(_, _)
CountOf(op, s) ==
    IF s = <<>> THEN 0
    ELSE (IF Head(s) = op THEN 1 ELSE 0) + CountOf(op, Tail(s))

Has(op, s) == \E k \in 1..Len(s) : s[k] = op

\* position of the first occurrence of op in s, 0 when absent
First(op, s) ==
    IF Has(op, s) THEN CHOOSE k \in 1..Len(s) :
                          s[k] = op /\ \A j \in 1..(k - 1) : s[j] # op
    ELSE 0

AccValues == {65 + 5 * k : k \in 0..MaxAcc}

\* ------------------------------------------- the collaborators train uses
BatchOpNames ==
    {"loader.next", "get_data_fn", "track.enable", "forward_fn", "loss_fn",
     "optimizer.zero_grad", "scaler.scale", "backward", "scaler.unscale_",
     "after_loss_fn", "track.disable", "pre_conditioner.step",
     "clip_grad_norm_", "scaler.step", "scaler.update", "optimizer.step",
     "update_parameters", "n_averaged.fill_", "lr_scheduler.step",
     "accuracy_fn", "meters.update", "empty_cache"}

AllOps == BatchOpNames \cup
    {"validate_fn", "save_fn", "epoch_fn", "GradScaler", "module.zero_grad",
     "writer.add_scalars", "module1", "module2", "softmax", "criterion"}

NoCalls == [op \in AllOps |-> 0]

Bump(c, op, n) == [c EXCEPT ![op] = @ + n]

\* --------------------------------------------------- call signatures
(* A callable's signature: its positional-or-keyword parameters in order,   *)
(* those without a default, and whether it takes **kwargs.  A call: the     *)
(* number of positional arguments and the keyword names it passes.          *)
Params(sig) == {sig.params[k] : k \in 1..Len(sig.params)}

\* Python's argument binding: TRUE iff the call raises no TypeError
Accepts(sig, call) ==
    /\ call.npos <= Len(sig.params)
    /\ LET bound == {sig.params[k] : k \in 1..call.npos}
       IN /\ call.kw \cap bound = {}
          /\ (sig.varkw \/ call.kw \subseteq Params(sig))
          /\ sig.required \subseteq (bound \cup call.kw)

\* def validate(module, num_classes, loader, print_prefix=..., ..., **kwargs)
ValidateSig ==
    [params |-> <<"module", "num_classes", "loader", "print_prefix",
                  "indent", "verbose", "get_data_fn", "forward_fn",
                  "loss_fn", "writer", "main_tag", "tag", "_epoch",
                  "accuracy_fn">>,
     required |-> {"module", "num_classes", "loader"},
     varkw |-> TRUE]

\* get_data_fn or (lambda x: x)
IdentitySig == [params |-> <<"x">>, required |-> {"x"}, varkw |-> FALSE]

\* loss_fn or nn.CrossEntropyLoss(): forward(input, target)
CrossEntropySig ==
    [params |-> <<"input", "target">>, required |-> {"input", "target"},
     varkw |-> FALSE]

\* forward_fn or module.__call__: the module's forward(x), which takes
\* further keywords only when the module declares **kwargs
ModuleCallSig(a) ==
    [params |-> <<"x">>, required |-> {"x"}, varkw |-> a.module_kwargs]

\* validate_fn(loader=..., get_data_fn=..., ..., indent=indent, **kwargs)
PreValidateCall ==
    [npos |-> 0,
     kw |-> {"loader", "get_data_fn", "loss_fn", "forward_fn", "writer",
             "tag", "_epoch", "verbose", "indent"}]

\* validate_fn(module=module, num_classes=num_classes, loader=..., **kwargs)
PostValidateCall ==
    [npos |-> 0,
     kw |-> {"module", "num_classes", "loader", "get_data_fn", "loss_fn",
             "writer", "tag", "_epoch", "verbose", "indent"}]

\* get_data_fn(data, mode='train')
GetDataCall == [npos |-> 1, kw |-> {"mode"}]

\* forward_fn(_input, amp=amp)
ForwardCall == [npos |-> 1, kw |-> {"amp"}]

\* loss_fn(_input, _label, _output=_output, amp=amp)
LossCall == [npos |-> 2, kw |-> {"_output", "amp"}]

\* the callable train ends up with for each hook (lines 50-53); a field of
\* args named after a hook is TRUE iff the caller supplied that hook
HookAccepts(a, hook, call) ==
    CASE a[hook] -> TRUE
      [] hook = "get_data_fn" -> Accepts(IdentitySig, call)
      [] hook = "forward_fn" -> Accepts(ModuleCallSig(a), call)
      [] hook = "loss_fn" -> Accepts(CrossEntropySig, call)
      [] hook = "validate_fn" -> Accepts(ValidateSig, call)

\* ------------------------------------------------------ one batch
\* AmpStepOps leaving the unscaling to scaler.step
AmpStepOps_scaled(a) ==
    <<"scaler.scale", "backward">>
    \o (IF a.after_loss_fn THEN <<"after_loss_fn">> ELSE <<>>)
    \o (IF a.grad_clip THEN <<"clip_grad_norm_">> ELSE <<>>)
    \o <<"scaler.step", "scaler.update">>

\* the amp branch of the step, lines 109-122
AmpStepOps(a) ==
    <<"scaler.scale", "backward">>
    \o (IF a.after_loss_fn THEN <<"scaler.unscale_", "after_loss_fn">>
        ELSE <<>>)
    \o (IF a.grad_clip THEN <<"scaler.unscale_", "clip_grad_norm_">>
        ELSE <<>>)
    \o <<"scaler.step", "scaler.update">>

\* PlainStepOps stepping the optimizer before the backward pass
PlainStepOps_stepfirst(a) ==
    <<"optimizer.step", "backward">>
    \o (IF a.after_loss_fn THEN <<"after_loss_fn">> ELSE <<>>)
    \o (IF a.grad_clip THEN <<"clip_grad_norm_">> ELSE <<>>)

\* PlainStepOps stepping the pre-conditioner with its tracking still on
PlainStepOps_nodisable(a) ==
    <<"backward">>
    \o (IF a.after_loss_fn THEN <<"after_loss_fn">> ELSE <<>>)
    \o (IF a.pre_conditioner THEN <<"pre_conditioner.step">> ELSE <<>>)
    \o (IF a.grad_clip THEN <<"clip_grad_norm_">> ELSE <<>>)
    \o <<"optimizer.step">>

\* the plain branch of the step, lines 124-138
PlainStepOps(a) ==
    <<"backward">>
    \o (IF a.after_loss_fn THEN <<"after_loss_fn">> ELSE <<>>)
    \o (IF a.pre_conditioner THEN <<"track.disable", "pre_conditioner.step">>
        ELSE <<>>)
    \o (IF a.grad_clip THEN <<"clip_grad_norm_">> ELSE <<>>)
    \o <<"optimizer.step">>

\* EmaDue counting batches from 1: due on the stride's last batch
EmaDue_fromone(a, idx) == a.model_ema /\ (idx + 1) % a.model_ema_steps = 0

\* line 140
EmaDue(a, idx) == a.model_ema /\ idx % a.model_ema_steps = 0

\* lines 140-145
EmaOps(a, e, idx) ==
    IF EmaDue(a, idx)
    THEN <<"update_parameters">>
         \o (IF e <= a.lr_warmup_epochs THEN <<"n_averaged.fill_">> ELSE <<>>)
    ELSE <<>>

\* StepSchedulerOps without the frequency test
StepSchedulerOps_always(a) ==
    IF a.lr_scheduler THEN <<"lr_scheduler.step">> ELSE <<>>

\* lines 147-148
StepSchedulerOps(a) ==
    IF a.lr_scheduler /\ a.lr_scheduler_freq = "step"
    THEN <<"lr_scheduler.step">> ELSE <<>>

\* the invocations batch idx of epoch e makes when nothing raises, in the
\* order of lines 99-156; amp_ is train's local amp
BatchOps(a, amp_, e, idx) ==
    <<"loader.next", "get_data_fn">>
    \o (IF a.pre_conditioner /\ ~amp_ THEN <<"track.enable">> ELSE <<>>)
    \o <<"forward_fn", "loss_fn", "optimizer.zero_grad">>
    \o (IF amp_ THEN AmpStepOps(a) ELSE PlainStepOps(a))
    \o EmaOps(a, e, idx)
    \o StepSchedulerOps(a)
    \o <<"accuracy_fn", "meters.update", "meters.update", "meters.update",
         "empty_cache">>

\* what invocation k of the batch raises by itself: a default hook that
\* rejects the call's keywords, or GradScaler.unscale_ called a second time
\* on the optimizer since the last update()
OwnError(a, ops, k) ==
    CASE ops[k] = "get_data_fn" /\ ~HookAccepts(a, "get_data_fn", GetDataCall)
           -> "TypeError"
      [] ops[k] = "forward_fn" /\ ~HookAccepts(a, "forward_fn", ForwardCall)
           -> "TypeError"
      [] ops[k] = "loss_fn" /\ ~HookAccepts(a, "loss_fn", LossCall)
           -> "TypeError"
      [] ops[k] = "scaler.unscale_"
         /\ \E j \in 1..(k - 1) : ops[j] = "scaler.unscale_"
           -> "RuntimeError"
      [] OTHER -> "none"

\* per invocation of a train batch, the exception it raises by itself
OwnErrors(a, ops) == [k \in 1..Len(ops) |-> OwnError(a, ops, k)]

\* position of the invocation that ends the batch, 0 when it completes;
\* own: what each invocation raises by itself; f: the position at which a
\* collaborator raises (0: none does)
StopAt(own, f) ==
    LET bad == {k \in 1..Len(own) : k = f \/ own[k] # "none"}
    IN IF bad = {} THEN 0 ELSE CHOOSE k \in bad : \A j \in bad : k <= j

\* Executed without the unwinding: the rest of the batch runs after a raise
Executed_swallow(ops, stop) == ops

\* train and validate have no try/except: the batch ends at the raising
\* invocation
Executed(ops, stop) == IF stop = 0 THEN ops ELSE SubSeq(ops, 1, stop)

Completed(ops, stop) == IF stop = 0 THEN ops ELSE SubSeq(ops, 1, stop - 1)

\* the exception a batch ends with: its own, unchanged, else the
\* collaborator's
BatchError(own, stop) ==
    IF stop = 0 THEN "none"
    ELSE IF own[stop] # "none" THEN own[stop]
    ELSE "HookError"

RECURSIVE BumpAll(_, _)
BumpAll(c, s) ==
    IF s = <<>> THEN c ELSE BumpAll(Bump(c, Head(s), 1), Tail(s))

\* the optimizer steps among these invocations (scaler.step steps it)
IsStep(op) == op \in {"optimizer.step", "scaler.step"}

StepsIn(s) == Cardinality({k \in 1..Len(s) : IsStep(s[k])})

\* ------------------------------------------------------ the meters
(* SmoothedValue keeps a running total and count: update(value, n) adds     *)
(* value * n and n, global_avg is total / count, kept as the pair           *)
(* <<total, count>> (a division by a zero count raises).                    *)
NoMeter == [total |-> 0, count |-> 0]

MeterUpdate(m, value, n) ==
    [total |-> m.total + value * n, count |-> m.count + n]

GlobalAvg(m) == <<m.total, m.count>>

\* lines 220-223: a MetricLogger with fresh loss, top1 and top5 meters
NoMeters == [loss |-> NoMeter, top1 |-> NoMeter, top5 |-> NoMeter]

(* What a deterministic model yields on batch b: a function of the batch,   *)
(* of the parameters (their version w) and of the mode.  b.loss and b.top1  *)
(* are the values at version 0 in inference mode; another version or mode   *)
(* gives other values, so that a change of either shows in the result.      *)
BatchLoss(b, w, mode) == b.loss + w + (IF mode THEN 1 ELSE 0)

BatchTop1(b, w, mode) ==
    IF w % 2 = 0 /\ ~mode THEN b.top1 ELSE 100 - b.top1

\* BatchWeight ignoring the batch's size: every batch weighs 1
BatchWeight_one(b) == 1

\* line 241: batch_size = int(_label.size(0))
BatchWeight(b) == b.n

\* lines 242-244: the batch folded into the three meters
Fold(m, b, w, mode) ==
    [loss |-> MeterUpdate(m.loss, BatchLoss(b, w, mode), BatchWeight(b)),
     top1 |-> MeterUpdate(m.top1, BatchTop1(b, w, mode), BatchWeight(b)),
     top5 |-> MeterUpdate(m.top5, 100, BatchWeight(b))]

\* lines 151-154: the batch folded into the meters, of which the first n
\* updates completed
TrainFold(m, b, w, mode, n) ==
    [loss |-> IF n >= 1
              THEN MeterUpdate(m.loss, BatchLoss(b, w, mode), BatchWeight(b))
              ELSE m.loss,
     top1 |-> IF n >= 2
              THEN MeterUpdate(m.top1, BatchTop1(b, w, mode), BatchWeight(b))
              ELSE m.top1,
     top5 |-> IF n >= 3 THEN MeterUpdate(m.top5, 100, BatchWeight(b))
              ELSE m.top5]

\* EpochMeters without the reset: the meters of the last epoch go on
EpochMeters_carry(m) == m

\* lines 82-85: a new MetricLogger with new meters in every epoch
EpochMeters(m) == NoMeters

\* ------------------------------------------------------ gradients
\* the gradients after one invocation of a batch: zero_grad clears them,
\* backward fills them (scaled when the loss went through scaler.scale),
\* unscale_ and scaler.step leave them unscaled
GradsAfter(g, op, amp_) ==
    CASE op = "optimizer.zero_grad" -> "zero"
      [] op = "backward" -> IF amp_ THEN "scaled" ELSE "plain"
      [] op \in {"scaler.unscale_", "scaler.step"} -> "unscaled"
      [] OTHER -> g

RECURSIVE GradsThrough(_, _, _)
GradsThrough(g, s, amp_) ==
    IF s = <<>> THEN g
    ELSE GradsThrough(GradsAfter(g, Head(s), amp_), Tail(s), amp_)

\* line 71
TotalIter(a) == (a.epochs - a.resume) * a.len_loader_train

\* line 100, _epoch being 1-based since line 77
Iter(a, e, idx) == e * a.len_loader_train + idx

\* lines 170, 173 and 182: global_step = _epoch + start_epoch
GlobalStep(a, e) == e + a.start_epoch

\* what a collaborator is shown at its invocation: the epoch, the
\* iteration index and total it is passed (-1: not passed), and the state
\* of the module at that moment
Seen(name, e, it, tot, g, rg, mode) ==
    [name |-> name, epoch |-> e, iter |-> it, total_iter |-> tot,
     grads |-> g, requires_grad |-> rg, training |-> mode]

\* lines 110-120 and 125-137: what the after-loss hook and the clipping of
\* a batch are shown; exec: the batch's invocations up to the last one made
BatchSeen(a, amp_, e, idx, g, rg, mode, exec) ==
    LET at(op) == First(op, exec)
        entry(op) ==
            Seen(op, e, Iter(a, e, idx), TotalIter(a),
                 GradsThrough(g, SubSeq(exec, 1, at(op) - 1), amp_), rg, mode)
    IN (IF at("after_loss_fn") # 0 THEN <<entry("after_loss_fn")>>
        ELSE <<>>)
       \o (IF at("clip_grad_norm_") # 0 THEN <<entry("clip_grad_norm_")>>
           ELSE <<>>)

\* HookGrad without line 79: the hook sees the tracking it was left with
HookGrad_kept(rg) == rg

\* line 79: activate_params(module, []) before the epoch hook
HookGrad(rg) == "none"

\* ModeAfterEpoch without line 161
ModeAfterEpoch_kept(a, mode) == mode

\* lines 160-161
ModeAfterEpoch(a, mode) == IF a.change_train_eval THEN FALSE ELSE mode

\* line 215: module.eval()
ModeAfterEval(mode) == FALSE

\* MoreEpochs with the last epoch run twice
MoreEpochs_inclusive(a, e) == e <= a.epochs

\* line 76: range(resume, epochs) has a next element after e epochs
MoreEpochs(a, e) == e < a.epochs

\* whether validate_fn runs the body of the built-in validate on the
\* module: the default does, and so does a supplied function that
\* delegates to it
RunsValidate(a) == a.validate_builtin \/ ~a.validate_fn

\* the module's mode after a validate_fn invocation that was accepted
ModeAfterValidate(a, mode) ==
    IF RunsValidate(a) THEN ModeAfterEval(mode) ELSE mode

\* the parameters an optimizer can hold
ParamNames == {"w1", "w2"}

\* what the epoch hook may leave in optimizer.param_groups
Regroupings(a, current) ==
    IF a.epoch_fn /\ a.regroups THEN SUBSET ParamNames \ {{}}
    ELSE {current}

\* ------------------------------------------------------ the train call
\* NoOp with the comparison off by one: epochs = 0 runs the call
NoOp_strict(a) == a.epochs < 0

\* lines 48-49
NoOp(a) == a.epochs <= 0

\* LocalAmp without the accelerator test of line 57
LocalAmp_asked(a) == a.amp

\* lines 56-58: mixed precision needs an accelerator
LocalAmp(a) == a.amp /\ a.num_gpus # 0

\* PreValidates without its interval test
PreValidates_always(a) == TRUE

\* line 61
PreValidates(a) == a.validate_interval # 0

\* PostValidates without "or _epoch == epochs"
PostValidates_nofinal(a, e) ==
    /\ a.validate_interval # 0
    /\ e % a.validate_interval = 0

\* lines 174-175
PostValidates(a, e) ==
    /\ a.validate_interval # 0
    /\ (e % a.validate_interval = 0 \/ e = a.epochs)

\* Improves with a strict comparison: a tie is no improvement
Improves_strict(cur, best) == cur > best

\* Improves taking every checkpoint for the best
Improves_always(cur, best) == TRUE

\* line 185: ties count as an improvement
Improves(cur, best) == cur >= best

\* one more than the epochs a call with these parameters can run: no call
\* invokes validate_fn more often
MaxValidations(a) == 1 + Max(a.epochs - a.resume, 0)

\* the accuracy the next validate_fn invocation returns
NextAcc == valid_accs[calls["validate_fn"] + 1]

\* post-epoch checkpoints so far (the invocation of line 62 is not one)
Checkpoints(ev) ==
    Cardinality({k \in 1..Len(ev) : ev[k][1] = "validate_fn" /\ ev[k][2] > 0})

\* whether this invocation of a collaborator may end in an exception
Outcomes(name) == IF name \in faulty THEN BOOLEAN ELSE {FALSE}

\* lines 48-65: the no-op check, the defaults, amp, the validation that
\* gives best_acc its first value
TrainCall ==
    /\ pc = "call"
    /\ IF NoOp(args)
       THEN /\ pc' = "done"
            /\ UNCHANGED <<error, raised_by, amp, scaler, best_acc, calls,
                           events, passed, training>>
       ELSE /\ amp' = LocalAmp(args)
            /\ scaler' = IF LocalAmp(args) THEN "GradScaler" ELSE "None"
            /\ IF ~PreValidates(args)
               THEN /\ pc' = "resume"
                    /\ calls' = IF LocalAmp(args)
                                THEN Bump(calls, "GradScaler", 1) ELSE calls
                    /\ UNCHANGED <<error, raised_by, best_acc, events,
                                   passed, training>>
               ELSE \E raised \in Outcomes("validate_fn") :
                    LET err == IF ~HookAccepts(args, "validate_fn",
                                               PreValidateCall)
                               THEN "TypeError"
                               ELSE IF raised THEN "HookError" ELSE "none"
                    IN /\ calls' = Bump(IF LocalAmp(args)
                                        THEN Bump(calls, "GradScaler", 1)
                                        ELSE calls, "validate_fn", 1)
                       /\ events' = Append(events, <<"validate_fn", 0>>)
                       /\ passed' = Append(passed, PreValidateCall.kw)
                       /\ training' =
                             IF HookAccepts(args, "validate_fn",
                                            PreValidateCall)
                             THEN ModeAfterValidate(args, training)
                             ELSE training
                       /\ error' = err
                       /\ raised_by' = IF err = "none" THEN raised_by
                                       ELSE "validate_fn"
                       /\ pc' = IF err = "none" THEN "resume" ELSE "raised"
                       /\ best_acc' = IF err = "none" THEN NextAcc
                                      ELSE best_acc
    /\ UNCHANGED <<env, groups, epoch, i, requires_grad, n_averaged, trace,
                   hook_amp, save_log, weights, meters, results, grads,
                   observed, records, training2>>

\* WalkSteps for a per-epoch scheduler only
WalkSteps_epochs(a) ==
    IF a.resume > 0 /\ a.lr_scheduler /\ a.lr_scheduler_freq = "epochs"
    THEN a.resume ELSE 0

\* lines 73-75: range(resume) is empty for a negative resume
WalkSteps(a) == IF a.resume > 0 /\ a.lr_scheduler THEN a.resume ELSE 0

\* lines 67-75: the parameter list, total_iter, the scheduler's resume walk
ResumeWalk ==
    /\ pc = "resume"
    /\ calls' = Bump(calls, "lr_scheduler.step", WalkSteps(args))
    /\ epoch' = args.resume
    /\ pc' = IF MoreEpochs(args, args.resume) THEN "epoch" ELSE "return"
    /\ params' = opt_params
    /\ UNCHANGED <<env, opt_params, error, raised_by, amp, scaler, best_acc, i, training,
                   requires_grad, n_averaged, trace, hook_amp, events,
                   save_log, weights, meters, results, grads, seen,
                   training2>>

\* lines 76-98: next epoch number, the epoch hook with gradient tracking
\* off, fresh meters, training mode, gradient tracking on params
EpochBegin ==
    /\ pc = "epoch"
    /\ epoch' = epoch + 1
    /\ \E raised \in Outcomes("epoch_fn") :
       LET failed == args.epoch_fn /\ raised
           rg == IF args.epoch_fn THEN HookGrad(requires_grad)
                 ELSE requires_grad
       IN /\ calls' = IF args.epoch_fn THEN Bump(calls, "epoch_fn", 1)
                      ELSE calls
          /\ observed' = IF args.epoch_fn
                         THEN Append(observed,
                                     Seen("epoch_fn", epoch + 1, -1, -1,
                                          grads, rg, training))
                         ELSE observed
          /\ meters' = IF failed THEN meters ELSE EpochMeters(meters)
          /\ events' = IF args.epoch_fn
                       THEN Append(events, <<"epoch_fn", epoch + 1>>)
                       ELSE events
          /\ error' = IF failed THEN "HookError" ELSE error
          /\ raised_by' = IF failed THEN "epoch_fn" ELSE raised_by
          /\ pc' = IF failed THEN "raised" ELSE "batch"
          /\ training' = IF ~failed /\ args.change_train_eval THEN TRUE
                         ELSE training
          /\ requires_grad' = IF failed THEN rg ELSE "params"
          /\ opt_params' \in Regroupings(args, opt_params)
    /\ i' = 0
    /\ trace' = <<>>
    /\ UNCHANGED <<env, params, amp, scaler, best_acc, n_averaged, hook_amp,
                   save_log, weights, results, grads, records, training2,
                   passed>>

\* the positions of a batch at which a collaborator may raise; 0: none does
FaultPoints(ops) == {0} \cup {k \in 1..Len(ops) : ops[k] \in faulty}

\* lines 99-156: one batch, to its end or to the invocation that raises
TrainBatch ==
    /\ pc = "batch"
    /\ i < args.len_loader_train
    /\ LET ops == BatchOps(args, amp, epoch, i)
       IN \E f \in FaultPoints(ops) :
          LET own == OwnErrors(args, ops)
              stop == StopAt(own, f)
              exec == Executed(ops, stop)
              comp == Completed(ops, stop)
          IN /\ trace' = exec
             /\ calls' = BumpAll(calls, exec)
             /\ error' = BatchError(own, stop)
             /\ raised_by' = IF stop = 0 THEN raised_by ELSE ops[stop]
             /\ pc' = IF stop = 0 THEN "batch" ELSE "raised"
             /\ i' = IF stop = 0 THEN i + 1 ELSE i
             /\ n_averaged' = IF Has("n_averaged.fill_", comp) THEN 0
                              ELSE IF Has("update_parameters", comp)
                              THEN n_averaged + 1 ELSE n_averaged
             /\ weights' = weights + StepsIn(comp)
             /\ events' = IF StepsIn(exec) > 0
                          THEN Append(events, <<"step", epoch>>)
                          ELSE events
             /\ hook_amp' = amp
             /\ grads' = GradsThrough(grads, comp, amp)
             /\ observed' = observed
                            \o BatchSeen(args, amp, epoch, i, grads,
                                         requires_grad, training, exec)
             /\ meters' = TrainFold(meters, loader[i + 1], weights,
                                    training, CountOf("meters.update", comp))
    /\ UNCHANGED <<env, groups, amp, scaler, best_acc, epoch, training,
                   requires_grad, save_log, results, records, training2,
                   passed>>

\* lines 157-173: after the batch loop
EpochEnd ==
    /\ pc = "batch"
    /\ i = args.len_loader_train
    /\ LET sched == args.lr_scheduler /\ args.lr_scheduler_freq = "epochs"
           c1 == Bump(calls, "optimizer.zero_grad", 1)
           c2 == IF sched THEN Bump(c1, "lr_scheduler.step", 1) ELSE c1
           \* line 163: global_avg of a meter that was never updated
           empty == meters.loss.count = 0
           writes == args.writer /\ ~empty
       IN /\ calls' = IF writes THEN Bump(c2, "writer.add_scalars", 2)
                      ELSE c2
          /\ events' = IF sched
                       THEN Append(events, <<"lr_scheduler.step", epoch>>)
                       ELSE events
          /\ records' = IF writes
                        THEN records
                             \o <<<<"Loss", GlobalStep(args, epoch),
                                    GlobalAvg(meters.loss)>>,
                                  <<"Acc", GlobalStep(args, epoch),
                                    GlobalAvg(meters.top1)>>>>
                        ELSE records
          /\ error' = IF empty THEN "ZeroDivisionError" ELSE error
          /\ raised_by' = IF empty THEN "global_avg" ELSE raised_by
          /\ pc' = IF empty THEN "raised" ELSE "validate"
    /\ training' = ModeAfterEpoch(args, training)
    /\ requires_grad' = "none"
    /\ grads' = "zero"
    /\ UNCHANGED <<env, groups, amp, scaler, best_acc, epoch, i, n_averaged, trace,
                   hook_amp, save_log, weights, meters, results, observed,
                   training2, passed>>

\* lines 174-197: the periodic validation, best_acc, the save
PostValidate ==
    /\ pc = "validate"
    /\ IF ~PostValidates(args, epoch)
       THEN /\ pc' = IF MoreEpochs(args, epoch) THEN "epoch" ELSE "return"
            /\ UNCHANGED <<error, raised_by, best_acc, calls, events,
                           save_log, observed, passed, training>>
       ELSE \E raised \in Outcomes("validate_fn"),
               save_raised \in Outcomes("save_fn") :
            LET verr == IF ~HookAccepts(args, "validate_fn", PostValidateCall)
                        THEN "TypeError"
                        ELSE IF raised THEN "HookError" ELSE "none"
                better == verr = "none" /\ Improves(NextAcc, best_acc)
                saves == better /\ args.save
                err == IF verr # "none" THEN verr
                       ELSE IF saves /\ save_raised THEN "HookError"
                       ELSE "none"
                ev1 == Append(events, <<"validate_fn", epoch>>)
                ob1 == Append(observed,
                              Seen("validate_fn", epoch, -1, -1, grads,
                                   requires_grad, training))
            IN /\ passed' = Append(passed, PostValidateCall.kw)
               /\ training' =
                     IF HookAccepts(args, "validate_fn", PostValidateCall)
                     THEN ModeAfterValidate(args, training)
                     ELSE training
               /\ observed' = IF saves
                              THEN Append(ob1,
                                          Seen("save_fn", epoch, -1, -1,
                                               grads, requires_grad,
                                               training))
                              ELSE ob1
               /\ calls' = IF saves
                           THEN Bump(Bump(calls, "validate_fn", 1),
                                     "save_fn", 1)
                           ELSE Bump(calls, "validate_fn", 1)
               /\ events' = IF saves THEN Append(ev1, <<"save_fn", epoch>>)
                            ELSE ev1
               /\ save_log' = IF saves THEN save_log \cup {Checkpoints(ev1)}
                              ELSE save_log
               /\ best_acc' = IF better THEN NextAcc ELSE best_acc
               /\ error' = err
               /\ raised_by' = IF verr # "none" THEN "validate_fn"
                               ELSE IF err # "none" THEN "save_fn"
                               ELSE raised_by
               /\ pc' = IF err # "none" THEN "raised"
                        ELSE IF MoreEpochs(args, epoch) THEN "epoch"
                        ELSE "return"
    /\ UNCHANGED <<env, groups, amp, scaler, epoch, i, requires_grad,
                   n_averaged, trace, hook_amp, weights, meters, results,
                   grads, records, training2>>

\* line 198
TrainReturn ==
    /\ pc = "return"
    /\ calls' = Bump(calls, "module.zero_grad", 1)
    /\ grads' = "zero"
    /\ pc' = "done"
    /\ UNCHANGED <<env, groups, locals, error, raised_by, i, training, weights,
                   trace, meters, results, seen, training2>>

Next ==
    \/ TrainCall
    \/ ResumeWalk
    \/ EpochBegin
    \/ TrainBatch
    \/ EpochEnd
    \/ PostValidate
    \/ TrainReturn

\* ------------------------------------------------------ the validate call
\* get_data_fn(data, mode='valid', **kwargs)
ValidGetDataCall == [npos |-> 1, kw |-> {"mode"}]

\* forward_fn(_input)
ValidForwardCall == [npos |-> 1, kw |-> {}]

\* loss_fn(_input, _label, _output=_output, **kwargs)
ValidLossCall == [npos |-> 2, kw |-> {"_output"}]

\* ValidateOps with train's backward and step pasted in
ValidateOps_steps ==
    <<"loader.next", "get_data_fn", "forward_fn", "loss_fn", "backward",
      "optimizer.step", "accuracy_fn", "meters.update", "meters.update",
      "meters.update">>

\* the invocations one batch of validate makes, lines 234-244
ValidateOps ==
    <<"loader.next", "get_data_fn", "forward_fn", "loss_fn", "accuracy_fn",
      "meters.update", "meters.update", "meters.update">>

\* lines 216-218 and 235-238: a defaulted hook that rejects its keywords
ValidateOwnError(a, ops, k) ==
    CASE ops[k] = "get_data_fn"
         /\ ~HookAccepts(a, "get_data_fn", ValidGetDataCall) -> "TypeError"
      [] ops[k] = "forward_fn"
         /\ ~HookAccepts(a, "forward_fn", ValidForwardCall) -> "TypeError"
      [] ops[k] = "loss_fn"
         /\ ~HookAccepts(a, "loss_fn", ValidLossCall) -> "TypeError"
      [] OTHER -> "none"

ValidateOwnErrors(a, ops) ==
    [k \in 1..Len(ops) |-> ValidateOwnError(a, ops, k)]

\* lines 215-233: inference mode, the defaults, fresh meters; the caller
\* may call validate again on the same data once a call has returned
ValidateCall ==
    /\ pc \in {"v_call", "v_done"}
    /\ Len(results) < ValidateRepeats
    /\ training' = ModeAfterEval(training)
    /\ meters' = NoMeters
    /\ i' = 0
    /\ trace' = <<>>
    /\ pc' = "v_batch"
    /\ UNCHANGED <<env, groups, locals, error, raised_by, weights, calls, results,
                   grads, seen, training2>>

\* lines 234-244: one batch of the pass
ValidateBatch ==
    /\ pc = "v_batch"
    /\ i < Len(loader)
    /\ LET ops == ValidateOps
       IN \E f \in FaultPoints(ops) :
          LET own == ValidateOwnErrors(args, ops)
              stop == StopAt(own, f)
              exec == Executed(ops, stop)
              comp == Completed(ops, stop)
          IN /\ trace' = exec
             /\ calls' = BumpAll(calls, exec)
             /\ error' = BatchError(own, stop)
             /\ raised_by' = IF stop = 0 THEN raised_by ELSE ops[stop]
             /\ pc' = IF stop = 0 THEN "v_batch" ELSE "raised"
             /\ i' = IF stop = 0 THEN i + 1 ELSE i
             /\ weights' = weights + StepsIn(comp)
             /\ meters' = IF stop = 0
                          THEN Fold(meters, loader[i + 1], weights, training)
                          ELSE meters
    /\ UNCHANGED <<env, groups, locals, training, results, grads, seen, training2>>

\* lines 245-254: the lifetime averages, to the writer and to the caller
ValidateReturn ==
    /\ pc = "v_batch"
    /\ i = Len(loader)
    /\ IF meters.loss.count = 0
       THEN /\ error' = "ZeroDivisionError"
            /\ raised_by' = "global_avg"
            /\ pc' = "raised"
            /\ UNCHANGED <<calls, results>>
       ELSE /\ results' = Append(results, <<GlobalAvg(meters.loss),
                                            GlobalAvg(meters.top1)>>)
            /\ calls' = IF args.writer
                        THEN Bump(calls, "writer.add_scalars", 2) ELSE calls
            /\ pc' = "v_done"
            /\ UNCHANGED <<error, raised_by>>
    /\ UNCHANGED <<env, groups, locals, i, training, weights, trace, meters, grads,
                   seen, training2>>

NextValidate ==
    \/ ValidateCall
    \/ ValidateBatch
    \/ ValidateReturn

\* ------------------------------------------------------ the compare call
\* get_data_fn(data, **kwargs), no further keyword being passed
CompareGetDataCall == [npos |-> 1, kw |-> {}]

\* Tensor.softmax(dim, dtype=None)
SoftmaxSig ==
    [params |-> <<"dim", "dtype">>, required |-> {"dim"}, varkw |-> FALSE]

\* line 285: _output2.softmax()
SoftmaxCall == [npos |-> 0, kw |-> {}]

\* the invocations one batch of compare makes, lines 281-287
CompareOps ==
    <<"loader.next", "get_data_fn", "module1", "module2", "softmax",
      "criterion", "meters.update">>

\* lines 266 and 282-285: a call its callee rejects
CompareOwnError(a, ops, k) ==
    CASE ops[k] = "get_data_fn"
         /\ ~HookAccepts(a, "get_data_fn", CompareGetDataCall) -> "TypeError"
      [] ops[k] = "softmax" /\ ~Accepts(SoftmaxSig, SoftmaxCall)
           -> "TypeError"
      [] OTHER -> "none"

CompareOwnErrors(a, ops) ==
    [k \in 1..Len(ops) |-> CompareOwnError(a, ops, k)]

\* lines 268-269: a MetricLogger with one new meter
CompareMeters == [loss |-> NoMeter]

\* line 285: what the criterion yields on the two outputs for batch b
CompareLoss(b) == b.loss

\* lines 264-279: both modules to inference mode, the default, the meter
CompareCall ==
    /\ pc = "c_call"
    /\ training' = FALSE
    /\ training2' = FALSE
    /\ meters' = CompareMeters
    /\ i' = 0
    /\ trace' = <<>>
    /\ pc' = "c_batch"
    /\ UNCHANGED <<env, groups, locals, error, raised_by, weights, calls, results,
                   grads, seen>>

\* lines 281-287: one batch of the pass
CompareBatch ==
    /\ pc = "c_batch"
    /\ i < Len(loader)
    /\ LET ops == CompareOps
       IN \E f \in FaultPoints(ops) :
          LET own == CompareOwnErrors(args, ops)
              stop == StopAt(own, f)
              exec == Executed(ops, stop)
          IN /\ trace' = exec
             /\ calls' = BumpAll(calls, exec)
             /\ error' = BatchError(own, stop)
             /\ raised_by' = IF stop = 0 THEN raised_by ELSE ops[stop]
             /\ pc' = IF stop = 0 THEN "c_batch" ELSE "raised"
             /\ i' = IF stop = 0 THEN i + 1 ELSE i
             /\ meters' = IF stop = 0
                          THEN [loss |-> MeterUpdate(meters.loss,
                                                     CompareLoss(loader[i + 1]),
                                                     BatchWeight(loader[i + 1]))]
                          ELSE meters
    /\ UNCHANGED <<env, groups, locals, training, training2, weights, results, grads,
                   seen>>

\* line 288: the lifetime average
CompareReturn ==
    /\ pc = "c_batch"
    /\ i = Len(loader)
    /\ IF meters.loss.count = 0
       THEN /\ error' = "ZeroDivisionError"
            /\ raised_by' = "global_avg"
            /\ pc' = "raised"
            /\ UNCHANGED results
       ELSE /\ results' = Append(results, GlobalAvg(meters.loss))
            /\ pc' = "c_done"
            /\ UNCHANGED <<error, raised_by>>
    /\ UNCHANGED <<env, groups, locals, i, training, training2, weights, calls,
                   trace, meters, grads, seen>>

NextCompare ==
    \/ CompareCall
    \/ CompareBatch
    \/ CompareReturn

\* ------------------------------------------------------ initial states
\* train's defaults (lines 23-45); every hook supplied by the caller
DefaultArgs ==
    [epochs |-> 1, lr_scheduler |-> FALSE, lr_scheduler_freq |-> "epochs",
     lr_warmup_epochs |-> 0, model_ema |-> FALSE,
     model_ema_steps |-> DefaultEmaSteps, grad_clip |-> FALSE,
     pre_conditioner |-> FALSE, resume |-> 0,
     validate_interval |-> DefaultValidateInterval, save |-> FALSE,
     amp |-> FALSE, num_gpus |-> 1, len_loader_train |-> 1,
     epoch_fn |-> FALSE, get_data_fn |-> TRUE, forward_fn |-> TRUE,
     loss_fn |-> TRUE, after_loss_fn |-> FALSE, validate_fn |-> TRUE,
     writer |-> FALSE, change_train_eval |-> TRUE, module_kwargs |-> FALSE,
     start_epoch |-> 0, validate_builtin |-> FALSE, regroups |-> FALSE]

\* a train call about to start with parameters from A, whose validate
\* function returns accuracies from Accs, on a module whose
\* mode is one of Modes and whose collaborators in Faulty may raise
InitLocals(A, Accs, Modes, Faulty) ==
    /\ args \in A
    /\ faulty = Faulty
    /\ raised_by = ""
    /\ weights = 0
    /\ grads = "caller"
    /\ observed = <<>>
    /\ records = <<>>
    /\ passed = <<>>
    /\ params = {}
    /\ opt_params = {"w1"}
    /\ training2 = FALSE
    /\ meters = NoMeters
    /\ results = <<>>
    /\ valid_accs \in [1..MaxValidations(args) -> Accs]
    /\ pc = "call"
    /\ error = "none"
    /\ amp = args.amp
    /\ scaler = "None"
    /\ best_acc = -1
    /\ epoch = 0
    /\ i = 0
    /\ training \in Modes
    /\ given_mode = training
    /\ requires_grad = "caller"
    /\ n_averaged = 0
    /\ calls = NoCalls
    /\ trace = <<>>
    /\ hook_amp = FALSE
    /\ events = <<>>
    /\ save_log = {}

\* batch k of a data source whose content does not matter
PlainBatch(k) ==
    [n |-> 1 + (k % 2), loss |-> 3 * (k % 2), top1 |-> 100 * (k % 2)]

\* such a call on a data source of len_loader_train batches
InitWith(A, Accs, Modes, Faulty) ==
    /\ InitLocals(A, Accs, Modes, Faulty)
    /\ loader = [k \in 1..args.len_loader_train |-> PlainBatch(k)]

\* which epochs run, get validated and saved: every epochs / resume /
\* validate_interval / save / scheduler combination within the bounds
SchedArgs ==
    {[DefaultArgs EXCEPT !.epochs = e, !.resume = r,
                         !.validate_interval = v, !.save = sv,
                         !.lr_scheduler = (fr # "none"),
                         !.lr_scheduler_freq = fr,
                         !.len_loader_train = n, !.epoch_fn = ef] :
        e \in -1..MaxEpochs, r \in 0..MaxEpochs,
        v \in 0..MaxInterval \cup {DefaultValidateInterval},
        sv \in BOOLEAN, fr \in {"none", "epochs"},
        n \in 1..MaxLen, ef \in BOOLEAN}

SchedFaulty == {"validate_fn", "save_fn", "epoch_fn", "optimizer.step"}

InitSched == InitWith(SchedArgs, {70, 75}, {TRUE}, SchedFaulty)

SpecSched == InitSched /\ [][Next]_vars

\* validate called directly: every data source within the bounds, the
\* hooks supplied or all defaulted, the module in either mode
ValidateArgs ==
    {[DefaultArgs EXCEPT !.writer = w] : w \in BOOLEAN}
    \cup {[DefaultArgs EXCEPT !.get_data_fn = FALSE, !.forward_fn = FALSE,
                              !.loss_fn = FALSE]}

Batches == [n : {1, 2}, loss : {0, 3}, top1 : {0, 100}]

Loaders == UNION {[1..n -> Batches] : n \in 0..MaxValLen}

ValidateFaulty ==
    {"loader.next", "get_data_fn", "forward_fn", "loss_fn", "accuracy_fn"}

InitValidate ==
    /\ args \in ValidateArgs
    /\ valid_accs = <<>>
    /\ faulty = ValidateFaulty
    /\ loader \in Loaders
    /\ pc = "v_call"
    /\ error = "none"
    /\ raised_by = ""
    /\ amp = FALSE
    /\ scaler = "None"
    /\ best_acc = -1
    /\ epoch = 0
    /\ i = 0
    /\ training \in BOOLEAN
    /\ requires_grad = "caller"
    /\ n_averaged = 0
    /\ weights = 0
    /\ calls = NoCalls
    /\ trace = <<>>
    /\ hook_amp = FALSE
    /\ events = <<>>
    /\ save_log = {}
    /\ meters = NoMeters
    /\ results = <<>>
    /\ grads = "caller"
    /\ observed = <<>>
    /\ records = <<>>
    /\ training2 = FALSE
    /\ given_mode = training
    /\ passed = <<>>
    /\ params = {}
    /\ opt_params = {"w1"}

SpecValidate == InitValidate /\ [][NextValidate]_vars

\* best-accuracy tracking: every accuracy sequence within the bounds, a
\* validation after every epoch
BestArgs ==
    {[DefaultArgs EXCEPT !.epochs = e, !.validate_interval = 1,
                         !.save = sv] :
        e \in 1..BestEpochs, sv \in BOOLEAN}

InitBest == InitWith(BestArgs, AccValues, {TRUE}, {})

SpecBest == InitBest /\ [][Next]_vars

\* which hooks the caller leaves to train's defaults
DefaultsArgs ==
    {[DefaultArgs EXCEPT !.get_data_fn = g, !.forward_fn = f, !.loss_fn = l,
                         !.validate_fn = v, !.module_kwargs = mk,
                         !.validate_interval = vi, !.epochs = e,
                         !.len_loader_train = n, !.amp = am] :
        g \in BOOLEAN, f \in BOOLEAN, l \in BOOLEAN, v \in BOOLEAN,
        mk \in BOOLEAN, vi \in {0, 1, DefaultValidateInterval},
        e \in {1, 2}, n \in 1..MaxLen, am \in BOOLEAN}

InitDefaults == InitWith(DefaultsArgs, {70}, {TRUE}, {})

SpecDefaults == InitDefaults /\ [][Next]_vars

\* the paths through a batch: every combination of mixed precision,
\* accelerator, after-loss hook, clipping, pre-conditioner, EMA, scheduler
BatchArgs ==
    {[DefaultArgs EXCEPT !.amp = am, !.num_gpus = g, !.after_loss_fn = al,
                         !.grad_clip = gc, !.pre_conditioner = pcn,
                         !.model_ema = ema, !.model_ema_steps = 2,
                         !.lr_scheduler = (fr # "none"),
                         !.lr_scheduler_freq = fr, !.epochs = e,
                         !.len_loader_train = n, !.validate_interval = vi,
                         !.save = TRUE, !.epoch_fn = TRUE] :
        am \in BOOLEAN, g \in {0, 1}, al \in BOOLEAN, gc \in BOOLEAN,
        pcn \in BOOLEAN, ema \in BOOLEAN, fr \in {"none", "epochs", "step"},
        e \in {1, 2}, n \in 1..MaxLen, vi \in {0, 1}}

BatchFaulty == BatchOpNames \cup {"validate_fn", "save_fn", "epoch_fn"}

InitBatch == InitWith(BatchArgs, {70}, {TRUE, FALSE}, BatchFaulty)

SpecBatch == InitBatch /\ [][Next]_vars

\* the scheduler: present or not, every frequency, every resume point up
\* to one past the last epoch
LrArgs ==
    {[DefaultArgs EXCEPT !.epochs = e, !.resume = r, !.lr_scheduler = ls,
                         !.lr_scheduler_freq = fr, !.len_loader_train = n,
                         !.validate_interval = vi, !.amp = am,
                         !.epoch_fn = TRUE] :
        e \in 1..MaxEpochs, r \in 0..(MaxEpochs + 1), ls \in BOOLEAN,
        fr \in {"epochs", "step", "iter"}, n \in 1..MaxLen,
        vi \in {0, 1}, am \in BOOLEAN}

LrFaulty == {"forward_fn", "validate_fn"}

InitLr == InitWith(LrArgs, {70}, {TRUE}, LrFaulty)

SpecLr == InitLr /\ [][Next]_vars

\* the module's mode and gradients: mode switching suppressed or not, the
\* module handed over in either mode
ModeArgs ==
    {[DefaultArgs EXCEPT !.change_train_eval = ct, !.epochs = e,
                         !.resume = r, !.validate_interval = vi,
                         !.save = sv, !.amp = am, !.len_loader_train = n,
                         !.after_loss_fn = TRUE, !.epoch_fn = ef] :
        ct \in BOOLEAN, e \in 1..2, r \in 0..2, vi \in 0..MaxInterval,
        sv \in BOOLEAN, am \in BOOLEAN, n \in 1..MaxLen, ef \in BOOLEAN}

ModeFaulty == {"forward_fn", "validate_fn", "save_fn"}

InitMode == InitWith(ModeArgs, {70}, {TRUE, FALSE}, ModeFaulty)

SpecMode == InitMode /\ [][Next]_vars

\* the epoch's metrics: every training data source within the bounds (the
\* empty one too), with or without a writer, start_epoch zero or not
MetricsArgs ==
    {[DefaultArgs EXCEPT !.writer = w, !.start_epoch = se, !.epochs = e,
                         !.resume = r, !.len_loader_train = n,
                         !.validate_interval = 0] :
        w \in BOOLEAN, se \in {0, 1}, e \in 1..2, r \in 0..1,
        n \in 0..MaxLen}

TrainLoaders == UNION {[1..n -> Batches] : n \in 0..MaxLen}

InitMetrics ==
    /\ InitLocals(MetricsArgs, {70}, {TRUE}, {"forward_fn"})
    /\ loader \in {l \in TrainLoaders : Len(l) = args.len_loader_train}

SpecMetrics == InitMetrics /\ [][Next]_vars

\* compare called on every data source within the bounds, the data
\* function supplied or defaulted, the two modules in any mode
CompareArgs == {[DefaultArgs EXCEPT !.get_data_fn = g] : g \in BOOLEAN}

CompareFaulty == {"loader.next", "get_data_fn", "module1", "module2"}

InitCompare ==
    /\ args \in CompareArgs
    /\ valid_accs = <<>>
    /\ faulty = CompareFaulty
    /\ loader \in Loaders
    /\ pc = "c_call"
    /\ error = "none"
    /\ raised_by = ""
    /\ amp = FALSE
    /\ scaler = "None"
    /\ best_acc = -1
    /\ epoch = 0
    /\ i = 0
    /\ training \in BOOLEAN
    /\ training2 \in BOOLEAN
    /\ requires_grad = "caller"
    /\ n_averaged = 0
    /\ weights = 0
    /\ calls = NoCalls
    /\ trace = <<>>
    /\ hook_amp = FALSE
    /\ events = <<>>
    /\ save_log = {}
    /\ meters = NoMeters
    /\ results = <<>>
    /\ grads = "caller"
    /\ observed = <<>>
    /\ records = <<>>
    /\ given_mode = training
    /\ passed = <<>>
    /\ params = {}
    /\ opt_params = {"w1"}

SpecCompare == InitCompare /\ [][NextCompare]_vars

\* validation inside train: the validate function an opaque hook, the
\* default, or one that delegates to the built-in validate; mode switching
\* suppressed or not; the module handed over in either mode
EvalArgs ==
    {[DefaultArgs EXCEPT !.change_train_eval = ct, !.validate_fn = vf,
                         !.validate_builtin = vb, !.validate_interval = vi,
                         !.epochs = e, !.len_loader_train = n] :
        ct \in BOOLEAN, vf \in BOOLEAN, vb \in BOOLEAN,
        vi \in 0..MaxInterval, e \in 1..2, n \in 1..MaxLen}

InitEval == InitWith(EvalArgs, {70}, {TRUE, FALSE}, {"forward_fn"})

SpecEval == InitEval /\ [][Next]_vars

\* an epoch hook that may reconfigure the optimizer's parameter groups
GroupsArgs ==
    {[DefaultArgs EXCEPT !.epoch_fn = TRUE, !.regroups = rg,
                         !.grad_clip = gc, !.epochs = e,
                         !.len_loader_train = n, !.validate_interval = 0] :
        rg \in BOOLEAN, gc \in BOOLEAN, e \in 1..MaxEpochs, n \in 1..MaxLen}

InitGroups == InitWith(GroupsArgs, {70}, {TRUE}, {"epoch_fn"})

SpecGroups == InitGroups /\ [][Next]_vars

\* a train call or a validate call, with collaborators that may raise
InitAll == InitBatch \/ InitValidate

NextAll == Next \/ NextValidate

SpecAll == InitAll /\ [][NextAll]_vars

\* the EMA schedule: strides and lengths within the bounds, and the
\* default stride on a source two strides long
EmaArgs ==
    {[DefaultArgs EXCEPT !.model_ema = ema, !.model_ema_steps = st,
                         !.lr_warmup_epochs = w, !.epochs = e,
                         !.len_loader_train = n, !.validate_interval = 0,
                         !.amp = am] :
        ema \in BOOLEAN, st \in 1..MaxStride, w \in 0..MaxEpochs,
        e \in 1..MaxEpochs, n \in 1..EmaMaxLen, am \in BOOLEAN}
    \cup
    {[DefaultArgs EXCEPT !.model_ema = TRUE, !.lr_warmup_epochs = w,
                         !.epochs = 2,
                         !.len_loader_train = 2 * DefaultEmaSteps + 1,
                         !.validate_interval = 0] : w \in 0..2}

InitEma == InitWith(EmaArgs, {70}, {TRUE}, {"optimizer.step", "forward_fn"})

SpecEma == InitEma /\ [][Next]_vars

\* ================================================================ claims
EventsOf(name, e) == {k \in 1..Len(events) : events[k] = <<name, e>>}

\* epoch e ran to the end of its validation step without raising
Passed(e) ==
    /\ e > args.resume
    /\ \/ epoch > e
       \/ epoch = e /\ pc \in {"epoch", "return", "done"}

\* the accuracy of post-epoch checkpoint k, and the one before any epoch
PostAcc(k) == valid_accs[k + 1]

PreAcc == valid_accs[1]

MaxOf(S) == CHOOSE x \in S : \A y \in S : x >= y

PostAccs == [k \in 1..Checkpoints(events) |-> PostAcc(k)]

(* C1 as stated: with saving enabled the save function runs exactly at the *)
(* checkpoints whose accuracy is >= every earlier checkpoint's (the first  *)
(* always saves) and best-so-far ends at the maximum; for [70, 65, 80, 75] *)
(* it runs exactly at checkpoints 1 and 3 and best-so-far ends at 80.      *)
C1_AsStated ==
    pc = "done" /\ args.save =>
        LET n == Checkpoints(events)
        IN /\ save_log = {k \in 1..n :
                             \A j \in 1..(k - 1) : PostAcc(k) >= PostAcc(j)}
           /\ best_acc = MaxOf({PostAcc(k) : k \in 1..n})
           /\ PostAccs = <<70, 65, 80, 75>> =>
                 save_log = {1, 3} /\ best_acc = 80

(* C1 amended: the validation before the first epoch sets best-so-far and  *)
(* never saves; with saving enabled the save function runs exactly at the  *)
(* post-epoch checkpoints whose accuracy is >= that first accuracy and >=  *)
(* every earlier checkpoint's (ties count), and best-so-far is the maximum *)
(* of all of them; for a first accuracy <= 70 followed by [70, 65, 80, 75] *)
(* it runs exactly at checkpoints 1 and 3 and best-so-far ends at 80.      *)
C1_BestTracking ==
    best_acc # -1 =>
        LET n == Checkpoints(events)
        IN /\ save_log = IF args.save
                         THEN {k \in 1..n :
                                 /\ PostAcc(k) >= PreAcc
                                 /\ \A j \in 1..(k - 1) :
                                       PostAcc(k) >= PostAcc(j)}
                         ELSE {}
           /\ calls["save_fn"] = Cardinality(save_log)
           /\ best_acc = MaxOf({PreAcc} \cup {PostAcc(k) : k \in 1..n})
           /\ (args.save /\ PostAccs = <<70, 65, 80, 75>> /\ PreAcc <= 70) =>
                 save_log = {1, 3} /\ best_acc = 80

C1_Witness ==
    /\ pc = "done"
    /\ args.save
    /\ PostAccs = <<70, 65, 80, 75>>
    /\ PreAcc = 70
    /\ save_log = {1, 3}
    /\ best_acc = 80

(* C2: a train call that leaves get_data_fn, forward_fn, loss_fn and       *)
(* validate_fn to their defaults does not fail for lack of a hook: every   *)
(* call the loop makes to a default, with the keywords it passes, is       *)
(* accepted by that default.                                               *)
C2_DefaultsAccepted ==
    (~args.get_data_fn /\ ~args.forward_fn /\ ~args.loss_fn
        /\ ~args.validate_fn) => error # "TypeError"

(* C3: train called with epochs <= 0 returns at once: no optimizer step,   *)
(* no scheduler step (even with resume > 0 and a scheduler), no zero_grad, *)
(* no validation, no save, no hook, no error, the module left as it was.   *)
C3_NoOpCall ==
    args.epochs <= 0 =>
        /\ calls = NoCalls
        /\ events = <<>>
        /\ save_log = {}
        /\ error = "none"
        /\ pc \in {"call", "done"}
        /\ requires_grad = "caller"
        /\ scaler = "None"

C3_Witness ==
    /\ pc = "done"
    /\ args.epochs = 0
    /\ args.resume > 0
    /\ args.lr_scheduler
    /\ args.epoch_fn
    /\ args.validate_interval # 0

(* C4: with validate_interval = 0 the validate function is never invoked   *)
(* (neither before the first epoch nor after any epoch) and neither is the *)
(* save function, whatever epochs, resume and save are.                    *)
C4_NoValidation ==
    args.validate_interval = 0 =>
        /\ calls["validate_fn"] = 0
        /\ calls["save_fn"] = 0
        /\ save_log = {}
        /\ \A k \in 1..Len(events) :
              events[k][1] \notin {"validate_fn", "save_fn"}

C4_Witness ==
    /\ pc = "done"
    /\ args.validate_interval = 0
    /\ args.save
    /\ args.epochs = MaxEpochs
    /\ args.resume = 0
    /\ epoch = args.epochs
    /\ calls["optimizer.step"] = MaxEpochs * args.len_loader_train

\* index of the batch the trace is of
TraceIdx == IF raised_by \in BatchOpNames THEN i ELSE i - 1

\* a raised call: its error, who raised, and the batch cut at the raise
C5_Raised ==
    /\ (error # "none") <=> (pc = "raised")
    /\ (pc = "raised") <=> (raised_by # "")
    /\ pc = "raised" /\ raised_by \in BatchOpNames =>
          /\ trace # <<>>
          /\ trace[Len(trace)] = raised_by
          /\ error \in {"HookError", "TypeError", "RuntimeError"}

(* C5: when a hook, the optimizer or the data source raises during a batch *)
(* of train or validate, the call ends there with that error: nothing of   *)
(* the batch runs after the raising invocation, and the call takes no      *)
(* further step (no retry, no optimizer or scheduler step, no EMA update,  *)
(* no validation, no save).                                                *)
C5_FailurePropagates == []C5_Raised /\ [][pc # "raised"]_vars

C5_Witness ==
    /\ pc = "raised"
    /\ raised_by = "forward_fn"
    /\ error = "HookError"
    /\ epoch = 2
    /\ i = 1
    /\ calls["optimizer.step"] = args.len_loader_train + 1
    /\ args.model_ema
    /\ args.lr_scheduler

(* C6: with an EMA tracker of stride s, a batch updates the shadow weights *)
(* iff its index i has i % s = 0, once, after the batch's optimizer step;  *)
(* the averaging counter is reset to zero right after the update in every  *)
(* epoch e <= lr_warmup_epochs and never in an epoch e > lr_warmup_epochs. *)
C6_EmaSchedule ==
    trace # <<>> =>
        LET due == args.model_ema /\ TraceIdx % args.model_ema_steps = 0
            upd == First("update_parameters", trace)
            rst == First("n_averaged.fill_", trace)
            stp == IF amp THEN First("scaler.step", trace)
                   ELSE First("optimizer.step", trace)
            whole == raised_by \notin BatchOpNames
        IN /\ upd # 0 => due /\ stp # 0 /\ stp < upd
           /\ whole /\ due => upd # 0
           /\ CountOf("update_parameters", trace) <= 1
           /\ rst # 0 => upd # 0 /\ rst = upd + 1
                         /\ epoch <= args.lr_warmup_epochs
           /\ whole /\ upd # 0 /\ epoch <= args.lr_warmup_epochs =>
                 rst # 0 /\ n_averaged = 0
           /\ epoch > args.lr_warmup_epochs => rst = 0

C6_Witness ==
    /\ args.model_ema
    /\ args.model_ema_steps = DefaultEmaSteps
    /\ pc = "batch"
    /\ epoch = 2
    /\ args.lr_warmup_epochs = 2
    /\ TraceIdx = 2 * DefaultEmaSteps
    /\ Has("n_averaged.fill_", trace)
    /\ n_averaged = 0
    /\ calls["update_parameters"] = 6

(* C7: without an accelerator (num_gpus = 0) a call with amp=True runs as  *)
(* one with amp=False: no scaler is created, no scaler call is made, every *)
(* batch takes the plain backward / optimizer.step path, the hooks get     *)
(* amp=False, and nothing raises but a collaborator.                       *)
C7_NoAcceleratorNoAmp ==
    args.num_gpus = 0 /\ pc # "call" =>
        /\ ~amp
        /\ scaler = "None"
        /\ \A op \in {"GradScaler", "scaler.scale", "scaler.unscale_",
                      "scaler.step", "scaler.update"} : calls[op] = 0
        /\ ~hook_amp
        /\ error \in {"none", "HookError"}
        /\ trace # <<>> =>
              LET plain == BatchOps([args EXCEPT !.amp = FALSE], FALSE,
                                    epoch, TraceIdx)
              IN /\ Len(trace) <= Len(plain)
                 /\ trace = SubSeq(plain, 1, Len(trace))
                 /\ raised_by \notin BatchOpNames =>
                       trace = plain /\ Has("optimizer.step", trace)

C7_Witness ==
    /\ pc = "done"
    /\ args.num_gpus = 0
    /\ args.amp
    /\ args.after_loss_fn
    /\ args.grad_clip
    /\ args.pre_conditioner
    /\ calls["optimizer.step"] = 2 * MaxLen
    /\ Has("pre_conditioner.step", trace)

RECURSIVE SumSizes(_)
SumSizes(s) == IF s = <<>> THEN 0 ELSE Head(s).n + SumSizes(Tail(s))

RECURSIVE SumLoss(_, _)
SumLoss(s, w) ==
    IF s = <<>> THEN 0
    ELSE BatchLoss(Head(s), w, FALSE) * Head(s).n + SumLoss(Tail(s), w)

RECURSIVE SumTop1(_, _)
SumTop1(s, w) ==
    IF s = <<>> THEN 0
    ELSE BatchTop1(Head(s), w, FALSE) * Head(s).n + SumTop1(Tail(s), w)

\* the quotients p[1] / p[2] and num / den are the same number
SameQuotient(p, num, den) == p[2] # 0 /\ den # 0 /\ p[1] * den = num * p[2]

(* C8: validate passes over its data source once, to its end, and returns  *)
(* (sum_i loss_i * n_i / sum_i n_i, sum_i top1_i * n_i / sum_i n_i), n_i   *)
(* the size of batch i.                                                    *)
C8_WeightedAverages ==
    /\ pc = "v_done" =>
          /\ i = Len(loader)
          /\ calls["loader.next"] = Len(results) * Len(loader)
          /\ calls["forward_fn"] = Len(results) * Len(loader)
    /\ \A k \in 1..Len(results) :
          /\ SameQuotient(results[k][1], SumLoss(loader, weights),
                          SumSizes(loader))
          /\ SameQuotient(results[k][2], SumTop1(loader, weights),
                          SumSizes(loader))

C8_Witness ==
    /\ pc = "v_done"
    /\ Len(results) = 1
    /\ Len(loader) = 3
    /\ loader[1].n = 1 /\ loader[2].n = 2 /\ loader[3].n = 2
    /\ loader[1].loss = 0 /\ loader[2].loss = 3 /\ loader[3].loss = 0
    /\ loader[1].top1 = 100 /\ loader[2].top1 = 0 /\ loader[3].top1 = 0
    /\ results[1] = <<<<6, 5>>, <<100, 5>>>>

(* C9: validate never steps the optimizer, runs backward or changes the    *)
(* parameters; all it does to the model is switch it to inference mode;    *)
(* two successive calls on the same data return the same (loss, accuracy). *)
C9_ValidatePure ==
    /\ weights = 0
    /\ requires_grad = "caller"
    /\ \A op \in {"optimizer.step", "optimizer.zero_grad", "backward",
                  "scaler.step", "update_parameters", "lr_scheduler.step",
                  "save_fn"} : calls[op] = 0
    /\ pc \in {"v_batch", "v_done"} => ~training
    /\ \A j \in 1..Len(results), k \in 1..Len(results) :
          /\ SameQuotient(results[j][1], results[k][1][1], results[k][1][2])
          /\ SameQuotient(results[j][2], results[k][2][1], results[k][2][2])

C9_Witness ==
    /\ pc = "v_done"
    /\ Len(results) = 2
    /\ Len(loader) = 2
    /\ loader[1] # loader[2]
    /\ results[1] = results[2]
    /\ ~training

(* C10: after epoch e the validate function is invoked iff                 *)
(* validate_interval != 0 and (e % validate_interval = 0 or e = epochs),   *)
(* once; the invocation comes after all of epoch e's optimizer steps and   *)
(* before epoch e+1's epoch hook and batches.                              *)
C10_ValidationSchedule ==
    /\ \A e \in 1..MaxEpochs + 1 :
          Passed(e) =>
             (EventsOf("validate_fn", e) # {}
                <=> /\ args.validate_interval # 0
                    /\ \/ e % args.validate_interval = 0
                       \/ e = args.epochs)
    /\ \A k \in 1..Len(events) :
          events[k][1] = "validate_fn" /\ events[k][2] > 0 =>
             LET e == events[k][2]
             IN /\ args.validate_interval # 0
                /\ e % args.validate_interval = 0 \/ e = args.epochs
                /\ EventsOf("validate_fn", e) = {k}
                /\ Cardinality({j \in 1..(k - 1) : events[j] = <<"step", e>>})
                      = args.len_loader_train
                /\ \A j \in 1..Len(events) :
                      /\ events[j][2] <= e /\ j # k
                         /\ events[j][1] \in {"step", "epoch_fn"} => j < k
                      /\ events[j][2] > e => j > k

C10_Witness ==
    /\ pc = "done"
    /\ args.validate_interval = 2
    /\ args.epochs = 3
    /\ args.resume = 0
    /\ args.epoch_fn
    /\ EventsOf("validate_fn", 1) = {}
    /\ EventsOf("validate_fn", 2) # {}
    /\ EventsOf("validate_fn", 3) # {}

\* the batch the trace is of ran to its end
WholeBatch == trace # <<>> /\ raised_by \notin BatchOpNames

(* C11: under mixed precision the scaler calls of every batch follow the   *)
(* scaler's protocol, whichever of the after-loss hook and the clipping    *)
(* are configured: scale(loss).backward() once, unscale_(optimizer) at     *)
(* most once before the next update(), then step(optimizer) once, then     *)
(* update() once, in that order, and the scaler raises nothing.            *)
C11_ScalerProtocol ==
    amp /\ trace # <<>> =>
        /\ CountOf("scaler.unscale_", trace) <= 1
        /\ ~(raised_by = "scaler.unscale_" /\ error = "RuntimeError")
        /\ CountOf("scaler.scale", trace) <= 1
        /\ WholeBatch =>
              /\ CountOf("scaler.scale", trace) = 1
              /\ CountOf("scaler.step", trace) = 1
              /\ CountOf("scaler.update", trace) = 1
              /\ First("scaler.scale", trace) + 1 = First("backward", trace)
              /\ First("backward", trace) < First("scaler.step", trace)
              /\ First("scaler.unscale_", trace) < First("scaler.step", trace)
              /\ First("scaler.step", trace) + 1
                    = First("scaler.update", trace)

\* the place of an invocation in the order of a batch, 0 for those the
\* order does not speak of
Rank(op) ==
    CASE op = "get_data_fn" -> 1
      [] op = "forward_fn" -> 2
      [] op = "loss_fn" -> 3
      [] op = "optimizer.zero_grad" -> 4
      [] op = "backward" -> 5
      [] op = "after_loss_fn" -> 6
      [] op = "clip_grad_norm_" -> 7
      [] op \in {"optimizer.step", "scaler.step"} -> 8
      [] op = "update_parameters" -> 9
      [] op = "lr_scheduler.step" -> 10
      [] op = "accuracy_fn" -> 11
      [] op = "meters.update" -> 12
      [] OTHER -> 0

RankCount(r, s) == Cardinality({k \in 1..Len(s) : Rank(s[k]) = r})

(* C12: the invocations of every training batch come in the order data     *)
(* extraction, forward, loss, optimizer.zero_grad, backward, after-loss    *)
(* hook (if supplied), clipping (if configured), optimizer step, EMA       *)
(* update (if due), per-batch scheduler step (if configured), metric       *)
(* update, each once (one update per meter); a batch that raises is a      *)
(* beginning of that order.                                                *)
C12_BatchOrder ==
    pc \in {"batch", "validate", "epoch", "return", "done", "raised"} =>
        /\ \A j \in 1..Len(trace), k \in 1..Len(trace) :
              j < k /\ Rank(trace[j]) # 0 /\ Rank(trace[k]) # 0 =>
                 \/ Rank(trace[j]) < Rank(trace[k])
                 \/ trace[j] = "meters.update" /\ trace[k] = "meters.update"
        /\ \A k \in 1..Len(trace) :
              /\ trace[k] = "after_loss_fn" => args.after_loss_fn
              /\ trace[k] = "clip_grad_norm_" => args.grad_clip
              /\ trace[k] = "lr_scheduler.step" =>
                    args.lr_scheduler /\ args.lr_scheduler_freq = "step"
              /\ Rank(trace[k]) > 1 =>
                    \A r \in 1..5 : r < Rank(trace[k]) =>
                                       RankCount(r, trace) = 1
              /\ Rank(trace[k]) > 8 => RankCount(8, trace) = 1
        /\ WholeBatch =>
              /\ \A r \in (1..5) \cup {8, 11} : RankCount(r, trace) = 1
              /\ RankCount(12, trace) = 3
              /\ RankCount(6, trace) = (IF args.after_loss_fn THEN 1 ELSE 0)
              /\ RankCount(7, trace) = (IF args.grad_clip THEN 1 ELSE 0)
              /\ RankCount(10, trace)
                    = (IF args.lr_scheduler /\ args.lr_scheduler_freq = "step"
                       THEN 1 ELSE 0)

C12_Witness ==
    /\ pc = "done"
    /\ ~amp
    /\ trace = <<"loader.next", "get_data_fn", "forward_fn", "loss_fn",
                 "optimizer.zero_grad", "backward", "after_loss_fn",
                 "clip_grad_norm_", "optimizer.step", "update_parameters",
                 "lr_scheduler.step", "accuracy_fn", "meters.update",
                 "meters.update", "meters.update", "empty_cache">>

SeenBy(name) == {k \in 1..Len(observed) : observed[k].name = name}

(* C13: under mixed precision the after-loss hook and the clipping are     *)
(* only ever invoked on gradients that were unscaled since that batch's    *)
(* backward pass, never on scaled ones (without mixed precision they see   *)
(* the gradients of the plain backward pass).                              *)
C13_UnscaledBeforeUse ==
    \A k \in SeenBy("after_loss_fn") \cup SeenBy("clip_grad_norm_") :
        /\ observed[k].grads # "scaled"
        /\ observed[k].grads = (IF amp THEN "unscaled" ELSE "plain")

C13_Witness ==
    /\ pc = "done"
    /\ amp
    /\ args.epochs = 2
    /\ Cardinality(SeenBy("after_loss_fn")) = 2 * MaxLen
    /\ \A k \in SeenBy("after_loss_fn") : observed[k].grads = "unscaled"

\* the batches so far whose optimizer step was made
StepsMade == calls["optimizer.step"] + calls["scaler.step"]

\* scheduler steps so far that are not the resume walk's (the walk is
\* what takes _epoch to resume)
LoopSteps ==
    calls["lr_scheduler.step"]
    - (IF args.resume > 0 /\ epoch >= args.resume THEN args.resume ELSE 0)

(* C14: with a scheduler, frequency 'step' steps it once per batch, after  *)
(* the batch's optimizer step, and never at the end of an epoch;           *)
(* frequency 'epochs' steps it once per epoch, after the epoch's batches   *)
(* and before the epoch's validation, and never in a batch; any other      *)
(* frequency never steps it in the epoch loop.                             *)
C14_SchedulerModes ==
    /\ CountOf("lr_scheduler.step", trace) <= 1
    /\ Has("lr_scheduler.step", trace) =>
          /\ args.lr_scheduler /\ args.lr_scheduler_freq = "step"
          /\ LET stp == IF amp THEN First("scaler.step", trace)
                        ELSE First("optimizer.step", trace)
             IN stp # 0 /\ stp < First("lr_scheduler.step", trace)
    /\ WholeBatch /\ args.lr_scheduler /\ args.lr_scheduler_freq = "step" =>
          Has("lr_scheduler.step", trace)
    /\ \A k \in 1..Len(events) :
          events[k][1] = "lr_scheduler.step" =>
             LET e == events[k][2]
             IN /\ args.lr_scheduler /\ args.lr_scheduler_freq = "epochs"
                /\ EventsOf("lr_scheduler.step", e) = {k}
                /\ Cardinality({j \in 1..(k - 1) : events[j] = <<"step", e>>})
                      = args.len_loader_train
                /\ \A j \in 1..Len(events) :
                      /\ events[j] = <<"step", e>> => j < k
                      /\ events[j] = <<"validate_fn", e>> => j > k
    /\ \A e \in 1..MaxEpochs + 1 :
          Passed(e) /\ args.lr_scheduler /\ args.lr_scheduler_freq = "epochs"
             => EventsOf("lr_scheduler.step", e) # {}
    /\ ~args.lr_scheduler => calls["lr_scheduler.step"] = 0
    /\ args.lr_scheduler =>
          LoopSteps =
             CASE args.lr_scheduler_freq = "step" -> StepsMade
               [] args.lr_scheduler_freq = "epochs" ->
                     Cardinality({k \in 1..Len(events) :
                                     events[k][1] = "lr_scheduler.step"})
               [] OTHER -> 0

C14_Witness ==
    /\ pc = "done"
    /\ args.lr_scheduler
    /\ args.lr_scheduler_freq = "step"
    /\ args.epochs = 2
    /\ args.resume = 0
    /\ args.len_loader_train = 2
    /\ calls["lr_scheduler.step"] = 4
    /\ events[Len(events)][1] # "lr_scheduler.step"

IsEpochHook(x) == x.name = "epoch_fn"

\* the invocations of the epoch hook so far, in order
EpochHooks == SelectSeq(observed, IsEpochHook)

(* C16: a supplied epoch hook is invoked once per epoch, for the epochs    *)
(* resume+1, resume+2, ..., epochs in this order, before any batch of its  *)
(* epoch; at each invocation gradient tracking is off on all parameters,   *)
(* and it is on again on the optimizer's parameters before the first batch *)
(* of the epoch.                                                           *)
C16_EpochHook ==
    /\ Len(EpochHooks) = calls["epoch_fn"]
    /\ ~args.epoch_fn => calls["epoch_fn"] = 0
    /\ args.epoch_fn /\ epoch >= args.resume =>
          Len(EpochHooks) = epoch - args.resume
    /\ args.epoch_fn /\ pc = "done" =>
          Len(EpochHooks) = Max(args.epochs - args.resume, 0)
    /\ \A j \in 1..Len(EpochHooks) :
          /\ EpochHooks[j].epoch = args.resume + j
          /\ EpochHooks[j].epoch <= args.epochs
          /\ EpochHooks[j].requires_grad = "none"
    /\ \A k \in 1..Len(events) :
          events[k][1] = "epoch_fn" =>
             /\ EventsOf("epoch_fn", events[k][2]) = {k}
             /\ \A j \in 1..Len(events) :
                   events[j][1] = "step" =>
                      (j > k <=> events[j][2] >= events[k][2])
    /\ pc = "batch" => requires_grad = "params"

C16_Witness ==
    /\ pc = "done"
    /\ args.epoch_fn
    /\ args.resume = 1
    /\ args.epochs = 3
    /\ Len(EpochHooks) = 2
    /\ EpochHooks[1].epoch = 2 /\ EpochHooks[2].epoch = 3
    /\ EpochHooks[1].requires_grad = "none"
    /\ EpochHooks[2].requires_grad = "none"
    /\ calls["optimizer.step"] = 2 * args.len_loader_train

\* gradients zeroed, inference mode, no parameter tracking gradients
AtRest(g, mode, rg) == g = "zero" /\ ~mode /\ rg = "none"

(* C17: with mode switching not suppressed, whenever train invokes the     *)
(* validate function after an epoch or the save function, and when it      *)
(* returns after at least one epoch, the gradients are zeroed, the model   *)
(* is in inference mode and no parameter tracks gradients; during every    *)
(* training batch the model is in training mode and the optimizer's        *)
(* parameters track gradients.                                             *)
C17_ModeDiscipline ==
    args.change_train_eval =>
        /\ \A k \in SeenBy("validate_fn") \cup SeenBy("save_fn") :
              AtRest(observed[k].grads, observed[k].training,
                     observed[k].requires_grad)
        /\ pc = "done" /\ epoch > args.resume =>
              AtRest(grads, training, requires_grad)
        /\ pc = "batch" => training /\ requires_grad = "params"
        /\ \A k \in SeenBy("after_loss_fn") :
              observed[k].training /\ observed[k].requires_grad = "params"

C17_Witness ==
    /\ pc = "done"
    /\ args.change_train_eval
    /\ args.epochs = 2
    /\ args.resume = 0
    /\ Cardinality(SeenBy("save_fn")) = 2
    /\ Cardinality(SeenBy("after_loss_fn")) = 2 * MaxLen
    /\ AtRest(grads, training, requires_grad)

\* epoch e ran to the end of line 173
Ended(e) ==
    /\ e > args.resume
    /\ \/ epoch > e
       \/ epoch = e /\ pc \in {"validate", "epoch", "return", "done"}

\* sum of loss * size over the batches s of an epoch of training that
\* starts with the parameters at version w, one optimizer step per batch
RECURSIVE SumTrainLoss(_, _)
SumTrainLoss(s, w) ==
    IF s = <<>> THEN 0
    ELSE BatchLoss(Head(s), w, TRUE) * Head(s).n
         + SumTrainLoss(Tail(s), w + 1)

RECURSIVE SumTrainTop1(_, _)
SumTrainTop1(s, w) ==
    IF s = <<>> THEN 0
    ELSE BatchTop1(Head(s), w, TRUE) * Head(s).n
         + SumTrainTop1(Tail(s), w + 1)

\* the records of epoch e are the weighted averages over its batches alone,
\* tagged with step
EpochRecords(e, step) ==
    LET j == e - args.resume
        w == (j - 1) * Len(loader)
    IN /\ Len(records) >= 2 * j
       /\ records[2 * j - 1][1] = "Loss"
       /\ records[2 * j - 1][2] = step
       /\ SameQuotient(records[2 * j - 1][3], SumTrainLoss(loader, w),
                       SumSizes(loader))
       /\ records[2 * j][1] = "Acc"
       /\ records[2 * j][2] = step
       /\ SameQuotient(records[2 * j][3], SumTrainTop1(loader, w),
                       SumSizes(loader))

EndedCount == Cardinality({e \in 1..MaxEpochs : Ended(e)})

(* C18 as stated: the meters are reset at the start of every epoch, so the *)
(* loss and top-1 accuracy written for epoch e are the batch-size-weighted *)
(* averages over the batches of epoch e alone; one loss record and one     *)
(* accuracy record per epoch with a writer, none without, each tagged with *)
(* the epoch number e.                                                     *)
C18_AsStated ==
    /\ ~args.writer => records = <<>>
    /\ args.writer =>
          /\ Len(records) = 2 * EndedCount
          /\ \A e \in 1..MaxEpochs : Ended(e) => EpochRecords(e, e)

(* C18 amended: the same, each record being tagged with the global step    *)
(* e + start_epoch, which is the epoch number e only when start_epoch is 0 *)
(* (its default).                                                          *)
C18_EpochMetrics ==
    /\ ~args.writer => records = <<>> /\ calls["writer.add_scalars"] = 0
    /\ args.writer =>
          /\ Len(records) = 2 * EndedCount
          /\ calls["writer.add_scalars"] = Len(records)
          /\ \A e \in 1..MaxEpochs : Ended(e) => EpochRecords(e, e + args.start_epoch)

C18_Witness ==
    /\ pc = "done"
    /\ args.writer
    /\ args.start_epoch = 1
    /\ args.epochs = 2
    /\ args.resume = 0
    /\ Len(loader) = 2
    /\ loader[1] = [n |-> 1, loss |-> 0, top1 |-> 0]
    /\ loader[2] = [n |-> 2, loss |-> 3, top1 |-> 100]
    /\ records = <<<<"Loss", 2, <<11, 3>>>>, <<"Acc", 2, <<100, 3>>>>,
                   <<"Loss", 3, <<17, 3>>>>, <<"Acc", 3, <<100, 3>>>>>>

RECURSIVE SumCompare(_)
SumCompare(s) ==
    IF s = <<>> THEN 0
    ELSE CompareLoss(Head(s)) * Head(s).n + SumCompare(Tail(s))

(* C19: compare puts both models in inference mode, passes once over the   *)
(* data source evaluating both models on the input of every batch, never   *)
(* runs backward, steps the optimizer or saves, fails only where a         *)
(* collaborator fails or the source is empty, and returns the              *)
(* batch-size-weighted average over all batches of the criterion applied   *)
(* to (model 1's output, model 2's probability-normalised output).         *)
C19_CompareAverage ==
    /\ pc # "c_call" => ~training /\ ~training2
    /\ \A op \in {"backward", "optimizer.step", "scaler.step", "save_fn",
                  "optimizer.zero_grad"} : calls[op] = 0
    /\ calls["module1"] <= calls["loader.next"]
    /\ WholeBatch => calls["module1"] = i /\ calls["module2"] = i
                     /\ calls["criterion"] = i
    /\ pc = "raised" => raised_by \in faulty \cup {"global_avg"}
    /\ pc = "c_done" =>
          /\ i = Len(loader)
          /\ Len(results) = 1
          /\ SameQuotient(results[1], SumCompare(loader), SumSizes(loader))

IsAfterLoss(x) == x.name = "after_loss_fn"

\* the invocations of the after-loss hook so far, in order
AfterLossHooks == SelectSeq(observed, IsAfterLoss)

\* the iteration index goes up by one from each invocation to the next
IterConsecutive ==
    \A k \in 1..(Len(AfterLossHooks) - 1) :
        AfterLossHooks[k + 1].iter = AfterLossHooks[k].iter + 1

(* C20: at every invocation of the after-loss hook the iteration index it  *)
(* is passed satisfies 0 <= _iter < total_iter, total_iter being the       *)
(* (epochs - resume) * len(loader_train) passed in the same call, and the  *)
(* index goes up by exactly 1 from each invocation to the next.            *)
C20_IterInRange ==
    /\ \A k \in 1..Len(AfterLossHooks) :
          /\ AfterLossHooks[k].total_iter
                = (args.epochs - args.resume) * args.len_loader_train
          /\ 0 <= AfterLossHooks[k].iter
          /\ AfterLossHooks[k].iter < AfterLossHooks[k].total_iter
    /\ IterConsecutive

\* what validate needs to evaluate the model as train trains it
TrainingContext ==
    {"module", "num_classes", "loader", "get_data_fn", "loss_fn",
     "forward_fn"}

(* C21: every invocation of the validate function by one train call, the   *)
(* one before the first epoch and each one after an epoch, is passed the   *)
(* module, num_classes, the loader, the data function, the loss function   *)
(* and the forward function used for training; the invocations pass the    *)
(* same arguments but for the values of the writer and the step number.    *)
C21_SameValidateArgs ==
    /\ \A k \in 1..Len(passed) : TrainingContext \subseteq passed[k]
    /\ \A j \in 1..Len(passed), k \in 1..Len(passed) : passed[j] = passed[k]

(* C22: with mode switching suppressed (change_train_eval false) the       *)
(* model's mode during every training batch, and at return, is the one it  *)
(* had when train was called, also when the built-in validate runs before  *)
(* the first epoch or between epochs.                                      *)
C22_ModeKept ==
    ~args.change_train_eval /\ pc \in {"batch", "done"} =>
        training = given_mode

\* the parameters that track gradients
Tracked == IF requires_grad = "params" THEN params ELSE {}

(* C23: at every training batch the parameters on which gradient tracking  *)
(* was reactivated, and to which the clipping is applied, are those now in *)
(* the optimizer's parameter groups, also after an epoch hook has added,   *)
(* removed or replaced parameter groups.                                   *)
C23_ParamsCurrent ==
    pc = "batch" => Tracked = opt_params /\ params = opt_params

\* op was invoked in the batch of the trace, and before it came earlier
Before(earlier, op) ==
    Has(op, trace) =>
        Has(earlier, trace) /\ First(earlier, trace) < First(op, trace)

PreConditionerOps == {"track.enable", "track.disable", "pre_conditioner.step"}

(* C24: with a pre-conditioner and mixed precision off, every batch        *)
(* enables its tracking before the forward pass, and disables it and steps *)
(* the pre-conditioner exactly once, after the backward pass and the       *)
(* after-loss hook and before the clipping and the optimizer step, so a    *)
(* batch that ends leaves the tracking disabled; with mixed precision on   *)
(* the pre-conditioner is never enabled, disabled or stepped.              *)
C24_PreConditioner ==
    args.pre_conditioner /\ pc # "call" =>
        IF amp
        THEN \A op \in PreConditionerOps : calls[op] = 0 /\ ~Has(op, trace)
        ELSE /\ \A op \in PreConditionerOps : CountOf(op, trace) <= 1
             /\ Before("track.enable", "forward_fn")
             /\ Before("backward", "track.disable")
             /\ args.after_loss_fn => Before("after_loss_fn", "track.disable")
             /\ Before("track.enable", "track.disable")
             /\ Before("track.disable", "pre_conditioner.step")
             /\ Has("track.disable", trace) /\ raised_by # "track.disable"
                    => First("pre_conditioner.step", trace)
                           = First("track.disable", trace) + 1
             /\ args.grad_clip =>
                    Before("pre_conditioner.step", "clip_grad_norm_")
             /\ Before("pre_conditioner.step", "optimizer.step")
             /\ WholeBatch =>
                    \A op \in PreConditionerOps : CountOf(op, trace) = 1
             /\ calls["track.enable"] >= calls["track.disable"]
             /\ calls["track.enable"] <= calls["track.disable"] + 1
             /\ pc = "done" =>
                    /\ calls["track.enable"] = calls["track.disable"]
                    /\ calls["pre_conditioner.step"] = calls["optimizer.step"]

C24_Witness ==
    /\ pc = "done"
    /\ args.pre_conditioner
    /\ ~amp
    /\ args.after_loss_fn
    /\ args.grad_clip
    /\ WholeBatch
    /\ calls["track.disable"] = 2 * MaxLen
    /\ calls["pre_conditioner.step"] = 2 * MaxLen

\* under mixed precision a pre-conditioner is attached and left alone
C24_WitnessAmp ==
    /\ pc = "done"
    /\ args.pre_conditioner
    /\ amp
    /\ calls["scaler.step"] = 2 * MaxLen

IsStepEvent(ev) == ev[1] = "step"

\* the epochs of the batches that stepped the optimizer, in order
StepEpochs == SelectSeq(events, IsStepEvent)

(* C25: a train call that completes normally with epochs > 0 and           *)
(* 0 <= resume < epochs processes exactly epochs - resume epochs and makes *)
(* exactly (epochs - resume) * len(loader_train) optimizer steps, one per  *)
(* batch in the order of the loader; with resume >= epochs it makes no     *)
(* optimizer step and invokes no epoch hook, yet still runs the validation *)
(* before the first epoch (when validate_interval != 0), the scheduler's   *)
(* resume walk and the final zero-grad.                                    *)
C25_EpochsProcessed ==
    /\ args.epochs > 0 =>
          /\ epoch <= Max(args.epochs, args.resume)
          /\ StepsMade <=
                 Max(args.epochs - args.resume, 0) * args.len_loader_train
    /\ pc = "done" /\ args.epochs > 0 =>
        LET n == args.len_loader_train
        IN /\ calls["module.zero_grad"] = 1
           /\ epoch >= args.resume
           /\ IF args.resume < args.epochs
              THEN /\ epoch = args.epochs
                   /\ EndedCount = args.epochs - args.resume
                   /\ StepsMade = (args.epochs - args.resume) * n
                   /\ calls["loader.next"] = StepsMade
                   /\ Len(StepEpochs) = StepsMade
                   /\ \A k \in 1..Len(StepEpochs) :
                         StepEpochs[k][2] = args.resume + 1 + ((k - 1) \div n)
                   /\ weights = StepsMade
              ELSE /\ epoch = args.resume
                   /\ EndedCount = 0
                   /\ StepsMade = 0
                   /\ calls["loader.next"] = 0
                   /\ calls["epoch_fn"] = 0
                   /\ calls["validate_fn"] =
                          (IF args.validate_interval # 0 THEN 1 ELSE 0)
                   /\ calls["lr_scheduler.step"] =
                          (IF args.lr_scheduler THEN args.resume ELSE 0)

C25_Witness ==
    /\ pc = "done"
    /\ args.epochs = MaxEpochs
    /\ args.resume = 1
    /\ args.len_loader_train = MaxLen
    /\ StepsMade = (MaxEpochs - 1) * MaxLen
    /\ StepEpochs[1][2] = 2

\* nothing left to train: validated once, scheduler walked, no step
C25_WitnessResumed ==
    /\ pc = "done"
    /\ args.epochs = 2
    /\ args.resume = MaxEpochs
    /\ args.epoch_fn
    /\ calls["validate_fn"] = 1
    /\ calls["lr_scheduler.step"] = MaxEpochs
    /\ calls["module.zero_grad"] = 1
    /\ StepsMade = 0

\* one step of train as best_acc and the save function see it
BestStep ==
    /\ best_acc # -1 => best_acc' >= best_acc
    /\ calls'["save_fn"] <= calls["save_fn"] + 1
    /\ pc = "call" => calls'["save_fn"] = calls["save_fn"]
    /\ calls'["save_fn"] > calls["save_fn"] =>
          /\ args.save
          /\ pc = "validate"
          /\ epoch > args.resume
          /\ calls["validate_fn"] >= 1
          /\ calls'["validate_fn"] = calls["validate_fn"] + 1
          /\ PostAcc(calls["validate_fn"]) >= best_acc
          /\ best_acc' = PostAcc(calls["validate_fn"])

(* C26: throughout a train call with validate_interval != 0 the best-so-far *)
(* accuracy never decreases and is never below the accuracy of the          *)
(* validation run before the first epoch; the save function is invoked only *)
(* with saving enabled and only right after a post-epoch validation whose   *)
(* accuracy was >= the best-so-far held before it, at most once per         *)
(* validation and never as a result of the validation before the first      *)
(* epoch.                                                                   *)
C26_BestNeverDrops ==
    /\ [](args.validate_interval # 0 /\ pc \notin {"call", "raised"}
             /\ ~NoOp(args) => best_acc >= PreAcc)
    /\ [](best_acc # -1 => best_acc >= PreAcc)
    /\ [](calls["save_fn"] <= Checkpoints(events))
    /\ [](~args.save => calls["save_fn"] = 0)
    /\ [][BestStep]_vars

C26_Witness ==
    /\ pc = "done"
    /\ args.save
    /\ args.validate_interval = 1
    /\ PreAcc = 70
    /\ PostAccs = <<75, 70, 75>>
    /\ calls["save_fn"] = 2
    /\ save_log = {1, 3}
    /\ best_acc = 75

====
